---- MODULE Spec2Model ----
(***************************************************************************)
(* Voice Box MCP server (src/src/index.ts, lines 1-315): the start of the   *)
(* process, the text_to_speech tool handler, withTimeout and the            *)
(* playTextToSpeech playback session.                                       *)
(*                                                                         *)
(* One step of the model is one turn of the Node.js event loop: an event    *)
(* callback (or the tool handler up to its first await) together with the   *)
(* promise reactions (microtasks) it triggers.  The decoder process         *)
(* (ffmpeg), the audio sink (Speaker), the provider (OpenAI) and the timer  *)
(* are the environment: they deliver events in any order the operating      *)
(* system and the libraries allow.                                          *)
(*                                                                         *)
(* Environment assumptions, stated once:                                    *)
(*  - the decoder may exit at any time with any status (0, non-zero, or     *)
(*    null when ended by a signal); its stdout ends when it exits;          *)
(*  - the ChildProcess 'close' event follows exit and the end of stdout;    *)
(*  - stream.pipe() ends the sink when stdout ends, and unpipes when the    *)
(*    sink emits 'error';                                                   *)
(*  - the sink emits 'close' only after it has been ended;                  *)
(*  - strings are modelled by their length (text, stderr chunks);          *)
(*  - a write to the stdin of an exited decoder is discarded; the 'error'   *)
(*    event that stdin may then emit, to which nothing listens, is not      *)
(*    modelled.                                                             *)
(*                                                                         *)
(* The legacy variant kept in the same file (lines 317-541) has its own     *)
(* specification, SpecLegacy, over the same variables.                      *)
(***************************************************************************)
EXTENDS Integers, Sequences, FiniteSets, TLC

(* ---------------------------------------------------------------- bounds *)
MaxEvents == 1
MaxStderrChunks == 1
MaxChunks == 1
MaxStderrSeq == 4
MaxStreamChunks == 3
MaxPcmChunks == 2

(* ------------------------------------------------------ program constants *)
MAX_TEXT_LENGTH == 4096
REQUEST_TIMEOUT == 300000
MAX_ERROR_BUFFER_SIZE == 10240

VALID_VOICES == {"alloy", "echo", "fable", "onyx", "nova", "shimmer"}
VALID_MODELS == {"tts-1", "tts-1-hd"}

\* "\n...[error output truncated]" (line 113): its length
TruncationMarkerLen == 28

(* ------------------------------------------------------------ input sets *)
\* Sessions share no state (every handler touches its own closure only), so
\* the per-session properties are checked on one call.
Calls == {1}

\* JavaScript values a caller can supply: undefined and null are written as
\* the strings below; every other string is itself.
Undefined == "<undefined>"
Null == "<null>"

\* text argument: its JavaScript type and, for a string, its length
TextInputs ==
  { [type |-> "undefined", len |-> 0],
    [type |-> "number", len |-> 0],
    [type |-> "string", len |-> 0],
    [type |-> "string", len |-> 1],
    [type |-> "string", len |-> MAX_TEXT_LENGTH],
    [type |-> "string", len |-> MAX_TEXT_LENGTH + 1] }

VoiceInputs == {Undefined, Null, "", "ash"}
ModelInputs == {Undefined, "tts-2"}

\* the voices and the defaults the README documents (Features; Tool
\* Parameters)
DocumentedVoices == VALID_VOICES \cup {"ash", "coral", "sage"}
DocumentedDefaultVoice == "alloy"
DocumentedDefaultModel == "tts-1"

\* what can go wrong while the decoder and the sink are created and wired
\* (lines 78-105), before the first await
SetupOutcomes ==
  {"ok", "spawnThrows", "speakerThrows", "noStdout", "noStderr", "noStdin"}

\* exit status delivered with the decoder's 'close' event, as the message
\* of line 127 prints it
ExitCodes == {"0", "1", "null"}

\* lengths of the chunks arriving on the decoder's stderr
StderrChunkLens == {50, MAX_ERROR_BUFFER_SIZE + 1}

\* chunk lengths for the runs that exercise the stderr buffer alone: short
\* chunks and chunks just under, at and over the cap
StderrSeqLens ==
  {1, 50, MAX_ERROR_BUFFER_SIZE - 1, MAX_ERROR_BUFFER_SIZE,
   MAX_ERROR_BUFFER_SIZE + 1}

\* what ffmpeg.stdin.write(chunk) does with a chunk (line 172): "direct",
\* the pipe takes it at once and write() returns true; "queued", it waits in
\* the Writable's buffer and write() returns true; "full", it waits in the
\* buffer, which has reached its high-water mark, and write() returns false
WriteOutcomes == {"direct", "queued", "full"}

(* ----------------------------------------------------------------- values *)
NoReason ==
  [kind |-> "none", code |-> "none", diagLen |-> 0, diagTruncated |-> FALSE]

Err(kind) == [NoReason EXCEPT !.kind = kind]

\* `ffmpeg exited with code ${code}: ${ffmpegError}` (line 127)
ExitErr(code, buf) ==
  [kind |-> "ffmpegExit", code |-> code,
   diagLen |-> buf.len, diagTruncated |-> buf.truncated]

\* `Request timed out after ${timeoutMs}ms` (line 57)
TimeoutErr == [Err("timeout") EXCEPT !.code = ToString(REQUEST_TIMEOUT)]

Fulfilled == [state |-> "fulfilled", reason |-> NoReason]
Rejected(reason) == [state |-> "rejected", reason |-> reason]
Pending == [state |-> "pending", reason |-> NoReason]

\* the text local of a handler that has not been called
NoText == [type |-> "none", len |-> 0]

\* the session before the tool call arrives
IdleSession ==
  [ hpc |-> "idle", text |-> NoText, voice |-> "", model |-> "",
    voiceArg |-> Undefined, modelArg |-> Undefined,
    responses |-> << >>,
    race |-> Pending, timer |-> "none",
    pc |-> "none", thrown |-> "none",
    settled |-> FALSE, settleCalls |-> 0, promise |-> Pending,
    ffmpeg |-> "null", killed |-> FALSE, exitCode |-> "none",
    stdinAvailable |-> FALSE, stdinEnded |-> FALSE,
    stdoutEnded |-> FALSE, closeEmitted |-> FALSE, ffmpegErrors |-> 0,
    ffmpegError |-> [len |-> 0, truncated |-> FALSE], stderrChunks |-> 0,
    stderrTotal |-> 0,
    speaker |-> "null", speakerErrors |-> 0,
    piped |-> FALSE, handlers |-> FALSE,
    providerCalls |-> << >>, written |-> << >>,
    decoders |-> 0, sinks |-> 0,
    streamed |-> 0, stdinQueue |-> << >>, needDrain |-> FALSE,
    stdinEndCalls |-> 0, emitted |-> 0, played |-> << >> ]

\* the server process when node starts it (lines 14-19, 304-315): apiKey
\* says whether OPENAI_API_KEY is set in its environment
LoadingServer(key) == [status |-> "loading", apiKey |-> key, exitCode |-> "none"]

\* the server process once main() has connected the stdio transport
ConnectedServer == [LoadingServer(TRUE) EXCEPT !.status = "connected"]

VARIABLES sessions, server

vars == <<sessions, server>>

\* requests are read and callbacks run in a process whose transport is
\* connected (line 306) and that has not exited
Running == server.status = "connected"

(* --------------------------------------------- withTimeout and the handler *)
\* lines 278-297: the tool result built from the outcome of the awaited race
ToolResult(s, outcome) ==
  IF outcome.state = "fulfilled"
  THEN [channel |-> "result", isError |-> FALSE,
        voice |-> s.voice, model |-> s.model, reason |-> NoReason]
  ELSE [channel |-> "result", isError |-> TRUE, voice |-> "", model |-> "",
        reason |-> outcome.reason]

\* the handler's promise rejects (an exception outside its try block): the
\* request is answered with a JSON-RPC error, which has no content and no
\* isError
HandlerRejection(kind) ==
  [channel |-> "error", isError |-> FALSE, voice |-> "", model |-> "",
   reason |-> Err(kind)]

\* mutant of WithTimeoutSettle: every settlement of a racing promise is
\* answered, whether or not the race is already decided
WithTimeoutSettleTwice(s, outcome) ==
  [s EXCEPT !.race = outcome, !.hpc = "done",
            !.responses = Append(@, ToolResult(s, outcome))]

\* Promise.race (lines 54-59) awaited by the handler (line 276): the first
\* settlement decides the race, the handler resumes and returns its result
WithTimeoutSettle(s, outcome) ==
  IF s.race.state = "pending"
  THEN [s EXCEPT !.race = outcome, !.hpc = "done",
                 !.responses = Append(@, ToolResult(s, outcome))]
  ELSE s

\* the reaction of the race to the playback promise (line 55)
Propagate(s) ==
  IF s.hpc = "awaiting" /\ s.promise.state # "pending"
  THEN WithTimeoutSettle(s, s.promise)
  ELSE s

(* --------------------------------------------------- playTextToSpeech parts *)
\* mutant of Reject: no settled guard, the outcome is overwritten
RejectAlways(s, reason) ==
  [s EXCEPT !.settled = TRUE, !.settleCalls = @ + 1,
            !.promise = Rejected(reason)]

\* if (!settled) { settled = true; reject(...) }  (lines 118-121, 125-128,
\* 133-136, 193-196); reject on a settled promise has no effect
Reject(s, reason) ==
  IF ~s.settled
  THEN [s EXCEPT !.settled = TRUE, !.settleCalls = @ + 1,
                 !.promise = IF @.state = "pending" THEN Rejected(reason) ELSE @]
  ELSE s

\* if (!settled) { settled = true; resolve() }  (lines 141-145)
Resolve(s) ==
  IF ~s.settled
  THEN [s EXCEPT !.settled = TRUE, !.settleCalls = @ + 1,
                 !.promise = IF @.state = "pending" THEN Fulfilled ELSE @]
  ELSE s

\* ffmpeg.kill() (line 187): the signal reaches a process that still runs
Kill(s) ==
  IF s.ffmpeg = "running" THEN [s EXCEPT !.killed = TRUE] ELSE s

\* speaker.end() (line 190, and stream.pipe at line 99)
SpeakerEnd(s) ==
  IF s.speaker = "open" THEN [s EXCEPT !.speaker = "ended"] ELSE s

\* ffmpeg.stderr.on("data") (lines 106-115)
OnStderrData(buf, n) ==
  IF buf.len + n <= MAX_ERROR_BUFFER_SIZE
  THEN [buf EXCEPT !.len = @ + n]
  ELSE IF buf.len < MAX_ERROR_BUFFER_SIZE
       THEN [len |-> MAX_ERROR_BUFFER_SIZE + TruncationMarkerLen,
             truncated |-> TRUE]
       ELSE buf

\* mutant of OnFfmpegError: the handler rejects without looking at settled
OnFfmpegErrorUnguarded(s) == RejectAlways(s, Err("ffmpegError"))

\* ffmpeg.on("error") (lines 117-122)
OnFfmpegError(s) == Reject(s, Err("ffmpegError"))

\* mutant of OnFfmpegClose: the legacy handler, which resolves on exit 0
OnFfmpegCloseResolving(s, code) ==
  IF code # "0" THEN Reject(s, ExitErr(code, s.ffmpegError)) ELSE Resolve(s)

\* mutant of OnFfmpegClose: a non-zero status fails the session whether or
\* not it is settled, replacing an earlier outcome
OnFfmpegCloseOverwriting(s, code) ==
  IF code # "0" THEN RejectAlways(s, ExitErr(code, s.ffmpegError)) ELSE s

\* mutant of OnFfmpegClose: only a positive exit code is a failure, the
\* null of a signal is not
OnFfmpegCloseNullIsClean(s, code) ==
  IF code = "1" /\ ~s.settled
  THEN Reject(s, ExitErr(code, s.ffmpegError))
  ELSE s

\* ffmpeg.on("close") (lines 124-130)
OnFfmpegClose(s, code) ==
  IF code # "0" /\ ~s.settled
  THEN Reject(s, ExitErr(code, s.ffmpegError))
  ELSE s

\* speaker.on("error") (lines 132-137)
OnSpeakerError(s) == Reject(s, Err("speakerError"))

\* speaker.on("close") (lines 140-146)
OnSpeakerClose(s) == Resolve(s)

\* mutant of Catch: the failure is reported without releasing anything
CatchNoCleanup(s, kind) ==
  [Reject(s, Err(kind)) EXCEPT !.pc = "caught", !.thrown = kind]

\* mutant of Catch: after the cleanup a fresh decoder and a fresh sink are
\* created for another attempt
CatchRecreating(s, kind) ==
  LET s1 == IF s.ffmpeg # "null" /\ ~s.killed THEN Kill(s) ELSE s
      s2 == IF s1.speaker # "null" THEN SpeakerEnd(s1) ELSE s1
  IN  [Reject(s2, Err(kind)) EXCEPT !.pc = "caught", !.thrown = kind,
                                    !.decoders = @ + 1, !.sinks = @ + 1]

\* catch (lines 182-197)
Catch(s, kind) ==
  LET s1 == IF s.ffmpeg # "null" /\ ~s.killed THEN Kill(s) ELSE s
      s2 == IF s1.speaker # "null" THEN SpeakerEnd(s1) ELSE s1
  IN  [Reject(s2, Err(kind)) EXCEPT !.pc = "caught", !.thrown = kind]

(* ------------------------------------------------------------ validation *)
\* destructuring defaults (line 251): only undefined takes the default
VoiceOrDefault(v) == IF v = Undefined THEN "onyx" ELSE v
ModelOrDefault(m) == IF m = Undefined THEN "tts-1" ELSE m

\* JavaScript truthiness of the values above
Truthy(v) == v \notin {Undefined, Null, ""}
\* mutant of TextTruthy: every text counts as present
TextTruthyAlways(text) == TRUE

TextTruthy(text) == text.type = "number" \/ (text.type = "string" /\ text.len > 0)

\* mutant of Validate: a text of MAX_TEXT_LENGTH characters is too long
ValidateShortOfMax(text, voice, model) ==
  IF ~TextTruthy(text) \/ text.type # "string" THEN "textRequired"
  ELSE IF text.len >= MAX_TEXT_LENGTH THEN "textTooLong"
  ELSE IF Truthy(voice) /\ voice \notin VALID_VOICES THEN "invalidVoice"
  ELSE IF Truthy(model) /\ model \notin VALID_MODELS THEN "invalidModel"
  ELSE "ok"

\* mutant of Validate: the length of the text is not checked
ValidateNoLength(text, voice, model) ==
  IF ~TextTruthy(text) \/ text.type # "string" THEN "textRequired"
  ELSE IF Truthy(voice) /\ voice \notin VALID_VOICES THEN "invalidVoice"
  ELSE IF Truthy(model) /\ model \notin VALID_MODELS THEN "invalidModel"
  ELSE "ok"

\* lines 259-273: "ok", or the validation error thrown
Validate(text, voice, model) ==
  IF ~TextTruthy(text) \/ text.type # "string" THEN "textRequired"
  ELSE IF text.len > MAX_TEXT_LENGTH THEN "textTooLong"
  ELSE IF Truthy(voice) /\ voice \notin VALID_VOICES THEN "invalidVoice"
  ELSE IF Truthy(model) /\ model \notin VALID_MODELS THEN "invalidModel"
  ELSE "ok"

(* ------------------------------------------ playTextToSpeech up to its await *)
\* mutant of StartPlayback: the provider request is issued first, the
\* decoder and the sink are created and wired afterwards
StartPlaybackRequestFirst(s, setup) ==
  LET asked == [s EXCEPT !.providerCalls =
                           Append(@, [model |-> s.model, voice |-> s.voice,
                                      input |-> s.text])]
      spawned == [asked EXCEPT !.ffmpeg = "running", !.decoders = @ + 1]
      withSink == [spawned EXCEPT !.speaker = "open", !.sinks = @ + 1]
      wired == [withSink EXCEPT !.piped = TRUE]
  IN  CASE setup = "spawnThrows" -> Catch(asked, "spawnError")
        [] setup = "speakerThrows" -> Catch(spawned, "speakerCtorError")
        [] setup = "noStdout" -> Catch(withSink, "noStdout")
        [] setup = "noStderr" -> Catch(wired, "noStderr")
        [] OTHER ->
             [wired EXCEPT !.handlers = TRUE,
                           !.stdinAvailable = (setup = "ok"),
                           !.pc = "requesting"]

\* lines 71-155: create and wire the decoder and the sink, register the
\* handlers, issue the provider request; a throw on the way runs the catch
StartPlayback(s, setup) ==
  LET spawned == [s EXCEPT !.ffmpeg = "running", !.decoders = @ + 1]
      withSink == [spawned EXCEPT !.speaker = "open", !.sinks = @ + 1]
      wired == [withSink EXCEPT !.piped = TRUE]
  IN  CASE setup = "spawnThrows" -> Catch(s, "spawnError")
        [] setup = "speakerThrows" -> Catch(spawned, "speakerCtorError")
        [] setup = "noStdout" -> Catch(withSink, "noStdout")
        [] setup = "noStderr" -> Catch(wired, "noStderr")
        [] OTHER ->
             [wired EXCEPT !.handlers = TRUE,
                           !.stdinAvailable = (setup = "ok"),
                           !.providerCalls =
                              Append(@, [model |-> s.model, voice |-> s.voice,
                                         input |-> s.text]),
                           !.pc = "requesting"]

(* ---------------------------------------------------------------- actions *)
Init ==
  /\ sessions = [c \in Calls |-> IdleSession]
  /\ server \in {LoadingServer(key) : key \in BOOLEAN}

\* mutant of LoadModule: the module goes on without looking at the key
LoadModuleUnchecked ==
  /\ server.status = "loading"
  /\ server' = [server EXCEPT !.status = "loaded"]
  /\ UNCHANGED sessions

\* the module body up to the call of main() (lines 14-21, 201-301): without
\* the key the process exits with code 1, else the client and the server
\* object are created and the handlers registered
LoadModule ==
  /\ server.status = "loading"
  /\ server' = IF server.apiKey
               THEN [server EXCEPT !.status = "loaded"]
               ELSE [server EXCEPT !.status = "exited", !.exitCode = "1"]
  /\ UNCHANGED sessions

\* main() (lines 304-315): server.connect(transport) succeeds, or it fails
\* and the catch of main exits with code 1
Connect(ok) ==
  /\ server.status = "loaded"
  /\ server' = IF ok
               THEN [server EXCEPT !.status = "connected"]
               ELSE [server EXCEPT !.status = "exited", !.exitCode = "1"]
  /\ UNCHANGED sessions

\* mutant of CallTool: the timeout timer is armed before the arguments are
\* validated
CallToolTimerFirst(c, hasArguments, text, voiceArg, modelArg, setup) ==
  LET s == sessions[c]
      voice == VoiceOrDefault(voiceArg)
      model == ModelOrDefault(modelArg)
      verdict == Validate(text, voice, model)
      called == [s EXCEPT !.text = text, !.voice = voice, !.model = model,
                          !.voiceArg = voiceArg, !.modelArg = modelArg,
                          !.timer = "armed"]
  IN  /\ s.hpc = "idle"
      /\ Running /\ UNCHANGED server
      /\ sessions' = [sessions EXCEPT ![c] =
           IF ~hasArguments
           THEN [s EXCEPT !.hpc = "done",
                   !.responses = Append(@, HandlerRejection("noArguments"))]
           ELSE IF verdict # "ok"
           THEN [called EXCEPT !.hpc = "done",
                   !.responses = Append(@, ToolResult(called, Rejected(Err(verdict))))]
           ELSE Propagate([StartPlayback(called, setup) EXCEPT
                             !.hpc = "awaiting"])]

\* the CallToolRequestSchema handler up to its await (lines 249-276);
\* params.arguments is optional in a tools/call request, and destructuring
\* it (line 251, before the try block) throws when it is absent
CallTool(c, hasArguments, text, voiceArg, modelArg, setup) ==
  LET s == sessions[c]
      voice == VoiceOrDefault(voiceArg)
      model == ModelOrDefault(modelArg)
      verdict == Validate(text, voice, model)
      called == [s EXCEPT !.text = text, !.voice = voice, !.model = model,
                          !.voiceArg = voiceArg, !.modelArg = modelArg]
  IN  /\ s.hpc = "idle"
      /\ Running /\ UNCHANGED server
      /\ sessions' = [sessions EXCEPT ![c] =
           IF ~hasArguments
           THEN [s EXCEPT !.hpc = "done",
                   !.responses = Append(@, HandlerRejection("noArguments"))]
           ELSE IF verdict # "ok"
           THEN [called EXCEPT !.hpc = "done",
                   !.responses = Append(@, ToolResult(called, Rejected(Err(verdict))))]
           ELSE Propagate([StartPlayback(called, setup) EXCEPT
                             !.hpc = "awaiting", !.timer = "armed"])]

\* mutant of TimerFire: the timer elapses without rejecting the race
TimerFireSilent(c) ==
  LET s == sessions[c]
  IN  /\ s.timer = "armed"
      /\ Running /\ UNCHANGED server
      /\ sessions' = [sessions EXCEPT ![c] = [s EXCEPT !.timer = "fired"]]

\* mutant of TimerFire: the timeout error is returned whenever the timer
\* fires, whether or not the call was answered
TimerFireAnswersAgain(c) ==
  LET s == sessions[c]
  IN  /\ s.timer = "armed"
      /\ Running /\ UNCHANGED server
      /\ sessions' = [sessions EXCEPT ![c] =
           WithTimeoutSettleTwice([s EXCEPT !.timer = "fired"],
                                  Rejected(TimeoutErr))]

\* setTimeout callback of withTimeout (line 57)
TimerFire(c) ==
  LET s == sessions[c]
  IN  /\ s.timer = "armed"
      /\ Running /\ UNCHANGED server
      /\ sessions' = [sessions EXCEPT ![c] =
           WithTimeoutSettle([s EXCEPT !.timer = "fired"], Rejected(TimeoutErr))]

\* openai.audio.speech.create resolves (lines 150-170)
ProviderResolve(c, hasBody) ==
  LET s == sessions[c]
  IN  /\ s.pc = "requesting"
      /\ Running /\ UNCHANGED server
      /\ sessions' = [sessions EXCEPT ![c] = Propagate(
           IF ~hasBody THEN Catch(s, "noStream")
           ELSE IF ~s.stdinAvailable THEN Catch(s, "noStdin")
           ELSE [s EXCEPT !.pc = "streaming"])]

\* mutant of ProviderReject: a rejected request is issued once more
ProviderRejectRetries(c) ==
  LET s == sessions[c]
  IN  /\ s.pc = "requesting"
      /\ Running /\ UNCHANGED server
      /\ sessions' = [sessions EXCEPT ![c] =
           IF Len(s.providerCalls) < 2
           THEN [s EXCEPT !.providerCalls = Append(@, @[1])]
           ELSE Propagate(Catch(s, "providerError"))]

\* openai.audio.speech.create rejects (line 150)
ProviderReject(c) ==
  LET s == sessions[c]
  IN  /\ s.pc = "requesting"
      /\ Running /\ UNCHANGED server
      /\ sessions' = [sessions EXCEPT ![c] = Propagate(Catch(s, "providerError"))]

\* mutant of WriteChunk: the newest chunk overtakes those written before it
WriteChunkReordered(s, how) ==
  LET k == s.streamed + 1
  IN  [s EXCEPT !.streamed = k,
                !.written = <<k>> \o @,
                !.stdinQueue = IF how = "direct" THEN @ ELSE <<k>> \o @,
                !.needDrain = @ \/ how = "full"]

\* one turn of the forwarding loop (lines 171-173): the stream yields its
\* next chunk (chunks are numbered as the provider produces them) and the
\* body passes it to write(), whose return value it does not look at
WriteChunk(s, how) ==
  LET k == s.streamed + 1
  IN  [s EXCEPT !.streamed = k,
                !.written = Append(@, k),
                !.stdinQueue = IF how = "direct" THEN @ ELSE Append(@, k),
                !.needDrain = @ \/ how = "full"]

\* the loop takes a turn, at most max turns in all; a chunk goes to the pipe
\* at once only if none waits before it
ForwardChunk(c, how, max) ==
  LET s == sessions[c]
  IN  /\ s.pc = "streaming"
      /\ s.streamed < max
      /\ how = "direct" => s.stdinQueue = << >>
      /\ Running /\ UNCHANGED server
      /\ sessions' = [sessions EXCEPT ![c] = WriteChunk(s, how)]

\* a turn of the loop whose chunk the pipe takes at once
StreamChunk(c) == ForwardChunk(c, "direct", MaxChunks)

\* a turn of the loop in the runs that exercise the streams alone
StreamChunkQueued(c, how) == ForwardChunk(c, how, MaxStreamChunks)

\* the pipe to the running decoder takes the chunk at the head of the
\* Writable's buffer; an emptied buffer that had signalled full emits
\* 'drain', to which nothing listens
StdinFlush(c) ==
  LET s == sessions[c]
  IN  /\ s.ffmpeg = "running" /\ s.stdinQueue # << >>
      /\ Running /\ UNCHANGED server
      /\ sessions' = [sessions EXCEPT ![c] =
           [s EXCEPT !.stdinQueue = Tail(@),
                     !.needDrain = @ /\ Tail(s.stdinQueue) # << >>]]

\* the decoder's stdout emits its next chunk of PCM; the pipe of line 99
\* writes it to the sink while it is piped to an open sink
StdoutData(c) ==
  LET s == sessions[c]
      k == s.emitted + 1
  IN  /\ s.ffmpeg # "null" /\ ~s.stdoutEnded
      /\ s.emitted < MaxPcmChunks
      /\ Running /\ UNCHANGED server
      /\ sessions' = [sessions EXCEPT ![c] =
           [s EXCEPT !.emitted = k,
                     !.played = IF s.piped /\ s.speaker = "open"
                                THEN Append(@, k) ELSE @]]

\* the provider stream throws while being iterated (line 171)
StreamThrow(c) ==
  LET s == sessions[c]
  IN  /\ s.pc = "streaming"
      /\ Running /\ UNCHANGED server
      /\ sessions' = [sessions EXCEPT ![c] = Propagate(Catch(s, "streamError"))]

\* mutant of StreamEnd: the session is resolved once all input is forwarded
StreamEndResolving(c) ==
  LET s == sessions[c]
  IN  /\ s.pc = "streaming"
      /\ Running /\ UNCHANGED server
      /\ sessions' = [sessions EXCEPT ![c] = Propagate(Resolve(
           [s EXCEPT !.stdinEnded = TRUE, !.stdinEndCalls = @ + 1,
                     !.pc = "finished"]))]

\* mutant of StreamEnd: end() is called but the loop goes on
StreamEndKeepsLooping(c) ==
  LET s == sessions[c]
  IN  /\ s.pc = "streaming"
      /\ s.stdinEndCalls < MaxStreamChunks
      /\ Running /\ UNCHANGED server
      /\ sessions' = [sessions EXCEPT ![c] =
           [s EXCEPT !.stdinEnded = TRUE, !.stdinEndCalls = @ + 1]]

\* the provider stream ends: ffmpeg.stdin.end() (lines 176-180)
StreamEnd(c) ==
  LET s == sessions[c]
  IN  /\ s.pc = "streaming"
      /\ Running /\ UNCHANGED server
      /\ sessions' = [sessions EXCEPT ![c] =
           [s EXCEPT !.stdinEnded = TRUE, !.stdinEndCalls = @ + 1,
                     !.pc = "finished"]]

\* a chunk of length n arrives on the decoder's stderr (lines 106-115), at
\* most max chunks in all; stderrTotal is the length of all that arrived
StderrData(c, n, max) ==
  LET s == sessions[c]
  IN  /\ s.ffmpeg # "null" /\ s.handlers /\ ~s.closeEmitted
      /\ s.stderrChunks < max
      /\ Running /\ UNCHANGED server
      /\ sessions' = [sessions EXCEPT ![c] =
           [s EXCEPT !.ffmpegError = OnStderrData(@, n),
                     !.stderrChunks = @ + 1,
                     !.stderrTotal = @ + n]]

FfmpegStderr(c, n) == StderrData(c, n, MaxStderrChunks)

\* the same event in the runs that exercise the stderr buffer alone
FfmpegStderrSeq(c, n) == StderrData(c, n, MaxStderrSeq)

\* the decoder emits 'error' (lines 117-122)
FfmpegError(c) ==
  LET s == sessions[c]
  IN  /\ s.ffmpeg # "null" /\ s.handlers /\ ~s.closeEmitted
      /\ s.ffmpegErrors < MaxEvents
      /\ Running /\ UNCHANGED server
      /\ sessions' = [sessions EXCEPT ![c] =
           Propagate(OnFfmpegError([s EXCEPT !.ffmpegErrors = @ + 1]))]

\* the decoder process exits (spawned at line 78); no handler listens
FfmpegExit(c, code) ==
  LET s == sessions[c]
  IN  /\ s.ffmpeg = "running"
      /\ Running /\ UNCHANGED server
      /\ sessions' = [sessions EXCEPT ![c] =
           [s EXCEPT !.ffmpeg = "exited", !.exitCode = code]]

\* stdout of the exited decoder ends; the pipe of line 99 ends the sink
StdoutEnd(c) ==
  LET s == sessions[c]
  IN  /\ s.ffmpeg = "exited" /\ ~s.stdoutEnded
      /\ Running /\ UNCHANGED server
      /\ sessions' = [sessions EXCEPT ![c] =
           LET e == [s EXCEPT !.stdoutEnded = TRUE]
           IN  IF s.piped THEN SpeakerEnd(e) ELSE e]

\* mutant of FfmpegClose: settled and the handlers' other variables are
\* shared by all sessions, so one decoder's close fails every session
FfmpegCloseShared(c) ==
  LET s == sessions[c]
  IN  /\ s.ffmpeg = "exited" /\ s.stdoutEnded /\ ~s.closeEmitted
      /\ Running /\ UNCHANGED server
      /\ sessions' = [d \in DOMAIN sessions |->
           LET e == IF d = c THEN [s EXCEPT !.closeEmitted = TRUE]
                    ELSE sessions[d]
           IN  IF e.handlers THEN Propagate(OnFfmpegClose(e, s.exitCode))
               ELSE e]

\* the decoder emits 'close' with its exit status (lines 124-130)
FfmpegClose(c) ==
  LET s == sessions[c]
      e == [s EXCEPT !.closeEmitted = TRUE]
  IN  /\ s.ffmpeg = "exited" /\ s.stdoutEnded /\ ~s.closeEmitted
      /\ Running /\ UNCHANGED server
      /\ sessions' = [sessions EXCEPT ![c] =
           IF s.handlers THEN Propagate(OnFfmpegClose(e, s.exitCode)) ELSE e]

\* the sink emits 'error' (lines 132-137); the pipe of line 99 unpipes
SpeakerError(c) ==
  LET s == sessions[c]
  IN  /\ s.speaker \in {"open", "ended"} /\ s.handlers
      /\ s.speakerErrors < MaxEvents
      /\ Running /\ UNCHANGED server
      /\ sessions' = [sessions EXCEPT ![c] =
           Propagate(OnSpeakerError(
             [s EXCEPT !.speakerErrors = @ + 1, !.piped = FALSE]))]

\* the ended sink has drained and emits 'close' (lines 140-146)
SpeakerClose(c) ==
  LET s == sessions[c]
      e == [s EXCEPT !.speaker = "closed"]
  IN  /\ s.speaker = "ended"
      /\ Running /\ UNCHANGED server
      /\ sessions' = [sessions EXCEPT ![c] =
           IF s.handlers THEN Propagate(OnSpeakerClose(e)) ELSE e]

Next ==
  \/ LoadModule
  \/ \E ok \in BOOLEAN : Connect(ok)
  \/ \E c \in Calls :
       \/ \E hasArguments \in BOOLEAN, text \in TextInputs,
             v \in VoiceInputs, m \in ModelInputs, setup \in SetupOutcomes :
               CallTool(c, hasArguments, text, v, m, setup)
       \/ TimerFire(c)
       \/ \E hasBody \in BOOLEAN : ProviderResolve(c, hasBody)
       \/ ProviderReject(c)
       \/ StreamChunk(c)
       \/ StreamThrow(c)
       \/ StreamEnd(c)
       \/ \E n \in StderrChunkLens : FfmpegStderr(c, n)
       \/ FfmpegError(c)
       \/ \E code \in ExitCodes : FfmpegExit(c, code)
       \/ StdoutEnd(c)
       \/ FfmpegClose(c)
       \/ SpeakerError(c)
       \/ SpeakerClose(c)

Spec == Init /\ [][Next]_vars

\* The stderr buffer is written by its 'data' handler only and read by the
\* 'close' handler only: its behaviour is explored on a session that has
\* just issued its provider request, with longer runs of stderr chunks.
StartedSession ==
  Propagate([StartPlayback([IdleSession EXCEPT
                              !.text = [type |-> "string", len |-> 1],
                              !.voice = VoiceOrDefault(Undefined),
                              !.model = ModelOrDefault(Undefined)], "ok")
               EXCEPT !.hpc = "awaiting", !.timer = "armed"])

InitStderr ==
  /\ sessions = [c \in Calls |-> StartedSession]
  /\ server = ConnectedServer

NextStderr == \E c \in Calls : \E n \in StderrSeqLens : FfmpegStderrSeq(c, n)

SpecStderr == InitStderr /\ [][NextStderr]_vars

\* The forwarding loop, the Writable in front of the decoder's stdin and the
\* pipe from its stdout to the sink are explored on a session whose provider
\* request has just resolved with a body, with longer streams and with the
\* events that end them: a throwing stream, a decoder exit, a sink error.
StreamingSession == [StartedSession EXCEPT !.pc = "streaming"]

InitStream ==
  /\ sessions = [c \in Calls |-> StreamingSession]
  /\ server = ConnectedServer

NextStream ==
  \E c \in Calls :
    \/ \E how \in WriteOutcomes : StreamChunkQueued(c, how)
    \/ StdinFlush(c)
    \/ StreamThrow(c)
    \/ StreamEnd(c)
    \/ StdoutData(c)
    \/ \E code \in ExitCodes : FfmpegExit(c, code)
    \/ SpeakerError(c)

SpecStream == InitStream /\ [][NextStream]_vars

\* Two tool calls in flight in one connected process.  Each call runs the
\* same handler and the same playTextToSpeech; the arguments are a valid
\* call and the validation failures, the setup succeeds, and the events are
\* those that settle, fail, time out and clean up a session.
ConcurrentCalls == {1, 2}

ConcurrentTexts ==
  { [type |-> "string", len |-> 0],
    [type |-> "string", len |-> 1],
    [type |-> "string", len |-> MAX_TEXT_LENGTH + 1] }

InitConcurrent ==
  /\ sessions = [c \in ConcurrentCalls |-> IdleSession]
  /\ server = ConnectedServer

NextConcurrent ==
  \E c \in ConcurrentCalls :
    \/ \E hasArguments \in BOOLEAN, text \in ConcurrentTexts,
          v \in {Undefined, "ash"} :
            CallTool(c, hasArguments, text, v, Undefined, "ok")
    \/ TimerFire(c)
    \/ ProviderReject(c)
    \/ ProviderResolve(c, TRUE)
    \/ StreamEnd(c)
    \/ \E code \in {"0", "1"} : FfmpegExit(c, code)
    \/ StdoutEnd(c)
    \/ FfmpegClose(c)
    \/ SpeakerError(c)
    \/ SpeakerClose(c)

SpecConcurrent == InitConcurrent /\ [][NextConcurrent]_vars

\* Node.js runs an armed timer's callback once its delay has elapsed, as long
\* as the process lives: the timer of withTimeout (line 57) is weakly fair.
\* Nothing is assumed of the provider, the decoder or the sink.
SpecLive == Spec /\ \A c \in Calls : WF_vars(TimerFire(c))

(* ------------------------------------- the legacy variant (lines 317-541) *)
\* The second program of the file ("ava-mcp"): the same tool with an older
\* playTextToSpeech.  It has its own specification over the same variables;
\* the fields settled, timer and race stay as in IdleSession because the
\* variant has no settled flag, no timer and no race.
LegacyTexts ==
  { [type |-> "undefined", len |-> 0],
    [type |-> "string", len |-> 0],
    [type |-> "string", len |-> 1],
    [type |-> "string", len |-> MAX_TEXT_LENGTH + 1] }

\* what can throw before the first await (lines 363-378)
LegacySetupOutcomes == {"ok", "spawnThrows", "speakerThrows"}

\* destructuring defaults (line 483)
LegacyVoiceOrDefault(v) == IF v = Undefined THEN "alloy" ELSE v

\* lines 491-501: "ok", or the validation error thrown
LegacyValidate(text, voice, model) ==
  IF ~TextTruthy(text) \/ text.type # "string" THEN "textRequired"
  ELSE IF Truthy(voice) /\ voice \notin VALID_VOICES THEN "invalidVoice"
  ELSE IF Truthy(model) /\ model \notin VALID_MODELS THEN "invalidModel"
  ELSE "ok"

\* reject(...) (lines 390, 395, 402, 429): a settled promise ignores it
LegacyReject(s, reason) ==
  [s EXCEPT !.settleCalls = @ + 1,
            !.promise = IF @.state = "pending" THEN Rejected(reason) ELSE @]

\* resolve() (line 397)
LegacyResolve(s) ==
  [s EXCEPT !.settleCalls = @ + 1,
            !.promise = IF @.state = "pending" THEN Fulfilled ELSE @]

\* the handler resumes from `await playTextToSpeech(...)` (line 504) and
\* returns its result (lines 506-524)
LegacyAwait(s) ==
  IF s.hpc = "awaiting" /\ s.promise.state # "pending"
  THEN [s EXCEPT !.hpc = "done",
                 !.responses = Append(@, ToolResult(s, s.promise))]
  ELSE s

\* catch (lines 428-430): nothing is released
LegacyCatch(s, kind) ==
  [LegacyReject(s, Err(kind)) EXCEPT !.pc = "caught", !.thrown = kind]

\* mutant of LegacyOnFfmpegClose: a clean exit settles nothing, as in the
\* current variant
LegacyOnFfmpegCloseWaiting(s, code) ==
  IF code # "0" THEN LegacyReject(s, ExitErr(code, s.ffmpegError)) ELSE s

\* ffmpeg.on("close") (lines 393-399)
LegacyOnFfmpegClose(s, code) ==
  IF code # "0"
  THEN LegacyReject(s, ExitErr(code, s.ffmpegError))
  ELSE LegacyResolve(s)

\* lines 361-411: create and wire the decoder and the sink, register the
\* handlers, issue the provider request
LegacyStartPlayback(s, setup) ==
  LET spawned == [s EXCEPT !.ffmpeg = "running", !.decoders = @ + 1]
      withSink == [spawned EXCEPT !.speaker = "open", !.sinks = @ + 1]
  IN  CASE setup = "spawnThrows" -> LegacyCatch(s, "spawnError")
        [] setup = "speakerThrows" -> LegacyCatch(spawned, "speakerCtorError")
        [] OTHER ->
             [withSink EXCEPT !.piped = TRUE, !.handlers = TRUE,
                              !.stdinAvailable = TRUE,
                              !.providerCalls =
                                 Append(@, [model |-> s.model,
                                            voice |-> s.voice,
                                            input |-> s.text]),
                              !.pc = "requesting"]

\* the CallToolRequestSchema handler up to its await (lines 481-504)
LegacyCallTool(c, hasArguments, text, voiceArg, modelArg, setup) ==
  LET s == sessions[c]
      voice == LegacyVoiceOrDefault(voiceArg)
      model == ModelOrDefault(modelArg)
      verdict == LegacyValidate(text, voice, model)
      called == [s EXCEPT !.text = text, !.voice = voice, !.model = model,
                          !.voiceArg = voiceArg, !.modelArg = modelArg]
  IN  /\ s.hpc = "idle"
      /\ Running /\ UNCHANGED server
      /\ sessions' = [sessions EXCEPT ![c] =
           IF ~hasArguments
           THEN [s EXCEPT !.hpc = "done",
                   !.responses = Append(@, HandlerRejection("noArguments"))]
           ELSE IF verdict # "ok"
           THEN [called EXCEPT !.hpc = "done",
                   !.responses = Append(@, ToolResult(called, Rejected(Err(verdict))))]
           ELSE LegacyAwait([LegacyStartPlayback(called, setup) EXCEPT
                               !.hpc = "awaiting"])]

\* openai.audio.speech.create resolves (lines 406-418)
LegacyProviderResolve(c, hasBody) ==
  LET s == sessions[c]
  IN  /\ s.pc = "requesting"
      /\ Running /\ UNCHANGED server
      /\ sessions' = [sessions EXCEPT ![c] = LegacyAwait(
           IF ~hasBody THEN LegacyCatch(s, "noStream")
           ELSE [s EXCEPT !.pc = "streaming"])]

\* openai.audio.speech.create rejects (line 406)
LegacyProviderReject(c) ==
  LET s == sessions[c]
  IN  /\ s.pc = "requesting"
      /\ Running /\ UNCHANGED server
      /\ sessions' = [sessions EXCEPT ![c] =
           LegacyAwait(LegacyCatch(s, "providerError"))]

\* the provider stream throws while being iterated (line 421)
LegacyStreamThrow(c) ==
  LET s == sessions[c]
  IN  /\ s.pc = "streaming"
      /\ Running /\ UNCHANGED server
      /\ sessions' = [sessions EXCEPT ![c] =
           LegacyAwait(LegacyCatch(s, "streamError"))]

\* a chunk arrives on the decoder's stderr (lines 385-387): appended whole
LegacyStderr(c, n) ==
  LET s == sessions[c]
  IN  /\ s.ffmpeg # "null" /\ s.handlers /\ ~s.closeEmitted
      /\ s.stderrChunks < MaxStderrChunks
      /\ Running /\ UNCHANGED server
      /\ sessions' = [sessions EXCEPT ![c] =
           [s EXCEPT !.ffmpegError.len = @ + n,
                     !.stderrChunks = @ + 1,
                     !.stderrTotal = @ + n]]

\* the decoder emits 'error' (lines 389-391)
LegacyFfmpegError(c) ==
  LET s == sessions[c]
  IN  /\ s.ffmpeg # "null" /\ s.handlers /\ ~s.closeEmitted
      /\ s.ffmpegErrors < MaxEvents
      /\ Running /\ UNCHANGED server
      /\ sessions' = [sessions EXCEPT ![c] = LegacyAwait(
           LegacyReject([s EXCEPT !.ffmpegErrors = @ + 1], Err("ffmpegError")))]

\* the decoder emits 'close' with its exit status (lines 393-399)
LegacyFfmpegClose(c) ==
  LET s == sessions[c]
      e == [s EXCEPT !.closeEmitted = TRUE]
  IN  /\ s.ffmpeg = "exited" /\ s.stdoutEnded /\ ~s.closeEmitted
      /\ Running /\ UNCHANGED server
      /\ sessions' = [sessions EXCEPT ![c] =
           IF s.handlers THEN LegacyAwait(LegacyOnFfmpegClose(e, s.exitCode))
           ELSE e]

\* the sink emits 'error' (lines 401-403); the pipe unpipes
LegacySpeakerError(c) ==
  LET s == sessions[c]
  IN  /\ s.speaker \in {"open", "ended"} /\ s.handlers
      /\ s.speakerErrors < MaxEvents
      /\ Running /\ UNCHANGED server
      /\ sessions' = [sessions EXCEPT ![c] = LegacyAwait(
           LegacyReject([s EXCEPT !.speakerErrors = @ + 1, !.piped = FALSE],
                        Err("speakerError")))]

\* the ended sink has drained and emits 'close', to which nothing listens
LegacySpeakerClose(c) ==
  LET s == sessions[c]
  IN  /\ s.speaker = "ended"
      /\ Running /\ UNCHANGED server
      /\ sessions' = [sessions EXCEPT ![c] = [s EXCEPT !.speaker = "closed"]]

InitLegacy ==
  /\ sessions = [c \in Calls |-> IdleSession]
  /\ server = ConnectedServer

\* the forwarding loop (lines 421-426), the exit of the decoder and the end
\* of its stdout are the same in both variants
NextLegacy ==
  \E c \in Calls :
    \/ \E hasArguments \in BOOLEAN, text \in LegacyTexts,
          v \in {Undefined, "ash"}, setup \in LegacySetupOutcomes :
            LegacyCallTool(c, hasArguments, text, v, Undefined, setup)
    \/ \E hasBody \in BOOLEAN : LegacyProviderResolve(c, hasBody)
    \/ LegacyProviderReject(c)
    \/ StreamChunk(c)
    \/ LegacyStreamThrow(c)
    \/ StreamEnd(c)
    \/ \E n \in StderrChunkLens : LegacyStderr(c, n)
    \/ LegacyFfmpegError(c)
    \/ \E code \in ExitCodes : FfmpegExit(c, code)
    \/ StdoutEnd(c)
    \/ LegacyFfmpegClose(c)
    \/ LegacySpeakerError(c)
    \/ LegacySpeakerClose(c)

SpecLegacy == InitLegacy /\ [][NextLegacy]_vars

(* ----------------------------------------------------------------- claims *)
\* the failures of the provider path (lines 150-161, 171)
ProviderFailures == {"providerError", "noStream", "streamError"}

\* the decoder no longer runs, or has been sent the kill signal
DecoderReleased(s) == s.ffmpeg # "running" \/ s.killed

\* C1: a call that reached the pipeline has no response while the race is
\* pending and exactly one afterwards, the result of the race's outcome
\* (success, or the error of the pipeline failure or of the timeout); no
\* call ever has two responses.
C1_ExactlyOneResponse ==
  \A c \in Calls :
    LET s == sessions[c]
    IN  /\ Len(s.responses) <= 1
        /\ s.pc # "none" =>
             IF s.race.state = "pending"
             THEN s.responses = << >> /\ s.hpc = "awaiting"
             ELSE s.responses = <<ToolResult(s, s.race)>> /\ s.hpc = "done"

\* C1 witness: playback succeeded, was answered, and the timer fired too
C1_Witness ==
  \E c \in Calls :
    LET s == sessions[c]
    IN  /\ s.promise.state = "fulfilled" /\ s.timer = "fired"
        /\ Len(s.responses) = 1 /\ ~s.responses[1].isError

\* C2: settled never goes back to false, resolve/reject is invoked at most
\* once in a session, and no step taken after settlement changes the
\* session's outcome.
C2_SettledOnce ==
  [][\A c \in Calls :
       LET s == sessions[c]
           t == sessions'[c]
       IN  /\ t.settleCalls <= 1
           /\ s.settled =>
                /\ t.settled
                /\ t.settleCalls = s.settleCalls
                /\ t.promise = s.promise]_vars

\* C2 witness: the decoder's 'error' settled the session; a sink 'error', the
\* catch block, a non-zero decoder 'close' and the sink 'close' all came later
C2_Witness ==
  \E c \in Calls :
    LET s == sessions[c]
    IN  /\ s.promise = Rejected(Err("ffmpegError"))
        /\ s.speakerErrors = 1 /\ s.pc = "caught"
        /\ s.closeEmitted /\ s.exitCode # "0" /\ s.speaker = "closed"

\* C3: a session is fulfilled only when the sink has emitted 'close', and
\* the decoder's 'close' with exit status 0 leaves the settlement as it was.
C3_SuccessOnlyOnSinkClose ==
  [][\A c \in Calls :
       LET s == sessions[c]
           t == sessions'[c]
       IN  /\ t.promise.state = "fulfilled" => t.speaker = "closed"
           /\ (~s.closeEmitted /\ t.closeEmitted /\ s.exitCode = "0") =>
                (t.settled = s.settled /\ t.promise = s.promise)]_vars

\* C3 witness: the decoder closed with status 0 and the session is still
\* pending, waiting for the ended sink
C3_Witness ==
  \E c \in Calls :
    LET s == sessions[c]
    IN  /\ s.closeEmitted /\ s.exitCode = "0" /\ s.handlers
        /\ ~s.settled /\ s.speaker = "ended"

\* C4: once the call has reported the timeout failure, the decoder is not
\* running any more (killed or exited) and the sink is closed.
C4_TimeoutReleases ==
  \A c \in Calls :
    LET s == sessions[c]
    IN  s.race = Rejected(TimeoutErr) =>
          DecoderReleased(s) /\ s.speaker \in {"null", "closed"}

\* C5: a decoder that exited with a non-zero status never has a session
\* that succeeded.
C5_NonZeroExitFails ==
  \A c \in Calls :
    LET s == sessions[c]
    IN  (s.ffmpeg = "exited" /\ s.exitCode = "1") =>
          s.promise.state # "fulfilled"

\* C6: the step that delivers a non-zero decoder 'close' to an unsettled
\* session rejects with the exit code and the stderr text buffered so far,
\* and leaves the sink closed.
C6_ExitFailureClosesSink ==
  [][\A c \in Calls :
       LET s == sessions[c]
           t == sessions'[c]
       IN  (~s.closeEmitted /\ t.closeEmitted /\ s.handlers
              /\ s.exitCode # "0" /\ ~s.settled) =>
             /\ t.promise = Rejected(ExitErr(s.exitCode, s.ffmpegError))
             /\ t.speaker = "closed"]_vars

\* C7: once the session is fulfilled it stays fulfilled, and a success
\* response already given is never changed or followed by another.
C7_SuccessIsFinal ==
  [][\A c \in Calls :
       LET s == sessions[c]
           t == sessions'[c]
       IN  s.promise.state = "fulfilled" =>
             /\ t.promise = s.promise
             /\ (s.responses # << >> /\ ~s.responses[1].isError) =>
                  t.responses = s.responses]_vars

\* C7 witness: success was reported, then the decoder emitted 'error' and
\* closed with a non-zero status
C7_Witness ==
  \E c \in Calls :
    LET s == sessions[c]
    IN  /\ s.promise.state = "fulfilled"
        /\ s.responses # << >> /\ ~s.responses[1].isError
        /\ s.ffmpegErrors >= 1 /\ s.closeEmitted /\ s.exitCode = "1"

\* C8: a session that failed with the sink's error has no running decoder
\* and a closed sink.
C8_SinkErrorReleases ==
  \A c \in Calls :
    LET s == sessions[c]
    IN  s.promise = Rejected(Err("speakerError")) =>
          DecoderReleased(s) /\ s.speaker = "closed"

C10_SuccessLeavesNothingOpen ==
  \A c \in Calls :
    LET s == sessions[c]
    IN  s.promise.state = "fulfilled" =>
          /\ s.ffmpeg = "exited" /\ s.stdoutEnded
          /\ s.speaker = "closed"

\* C10 witness: the whole stream was forwarded, the decoder exited with
\* status 0 and closed, the sink drained, and success was reported
C10_Witness ==
  \E c \in Calls :
    LET s == sessions[c]
    IN  /\ s.promise.state = "fulfilled" /\ s.pc = "finished"
        /\ s.written # << >> /\ s.exitCode = "0" /\ s.closeEmitted
        /\ s.responses # << >> /\ ~s.responses[1].isError

\* C11: under a fair timer every call that is waiting for its playback is
\* eventually answered, whatever the provider, the decoder and the sink do
\* or fail to do.
C11_EventuallyResponds ==
  \A c \in Calls :
    (sessions[c].hpc = "awaiting") ~> (sessions[c].hpc = "done")

\* C11 witness: the provider never answered, the decoder never exited, the
\* sink never closed, and the call was answered with the timeout error
C11_Witness ==
  \E c \in Calls :
    LET s == sessions[c]
    IN  /\ s.hpc = "done" /\ s.responses = <<ToolResult(s, Rejected(TimeoutErr))>>
        /\ s.pc = "requesting" /\ s.ffmpeg = "running" /\ ~s.killed
        /\ s.speaker = "open" /\ ~s.settled

\* the call was answered with the validation error `kind` and nothing else
\* happened: no provider request, no playback
RejectedByValidation(s, kind) ==
  /\ s.hpc = "done"
  /\ s.responses = <<ToolResult(s, Rejected(Err(kind)))>>
  /\ s.providerCalls = << >>
  /\ s.pc = "none"

\* C12: a call whose text is longer than MAX_TEXT_LENGTH is answered with
\* the text-too-long validation error and never reaches the provider.
C12_TooLongRejected ==
  \A c \in Calls :
    LET s == sessions[c]
    IN  (s.text.type = "string" /\ s.text.len > MAX_TEXT_LENGTH) =>
          RejectedByValidation(s, "textTooLong")

\* C12 witness: a call with a text of MAX_TEXT_LENGTH + 1 characters
C12_Witness ==
  \E c \in Calls :
    LET s == sessions[c]
    IN  /\ s.text = [type |-> "string", len |-> MAX_TEXT_LENGTH + 1]
        /\ s.hpc = "done" /\ s.responses[1].isError

\* C13: a call whose voice is not in VALID_VOICES or whose model is not in
\* VALID_MODELS (the empty string and null included) never reaches the
\* provider and is answered with an error.
C13_UnknownVoiceOrModelRejected ==
  \A c \in Calls :
    LET s == sessions[c]
    IN  (s.hpc # "idle" /\ (s.voice \notin VALID_VOICES
                              \/ s.model \notin VALID_MODELS)) =>
          /\ s.providerCalls = << >>
          /\ s.hpc = "done" /\ s.responses[1].isError

\* C14: a call whose text is empty, missing or not a string is answered at
\* once with the text-required validation error and never reaches the
\* provider.
C14_EmptyTextRejected ==
  \A c \in Calls :
    LET s == sessions[c]
    IN  (s.hpc # "idle" /\ (s.text.type # "string" \/ s.text.len = 0)) =>
          RejectedByValidation(s, "textRequired")

\* C14 witness: a call with the empty string as text
C14_Witness ==
  \E c \in Calls :
    LET s == sessions[c]
    IN  /\ s.text = [type |-> "string", len |-> 0]
        /\ s.hpc = "done" /\ s.responses[1].isError

\* C15: whenever the stderr data received exceeds MAX_ERROR_BUFFER_SIZE in
\* total, the buffer ends in the truncation marker, and the buffer is never
\* longer than the cap plus the marker.
C15_OverflowIsMarked ==
  \A c \in Calls :
    LET s == sessions[c]
    IN  /\ s.ffmpegError.len <= MAX_ERROR_BUFFER_SIZE + TruncationMarkerLen
        /\ s.stderrTotal > MAX_ERROR_BUFFER_SIZE => s.ffmpegError.truncated

\* the chunks 1..n in the order the provider produced them
InOrder(n) == [i \in 1..n |-> i]

\* a sequence of chunk numbers that never steps back or repeats
Increasing(q) == \A i, j \in 1..Len(q) : i < j => q[i] < q[j]

\* C16: while the decoder's input cannot accept more data (write() has
\* returned false and the buffer has not drained since), the forwarding loop
\* writes no further chunk.
C16_BackpressureHoldsLoop ==
  [][\A c \in Calls :
       sessions[c].needDrain => sessions'[c].written = sessions[c].written]_vars

\* C17: the chunks passed to the decoder's stdin are exactly the chunks the
\* provider stream has yielded, in its order; the chunks waiting in front of
\* the pipe keep that order; the PCM chunks the sink received were emitted
\* by the decoder and arrive in the order of their emission.
C17_OrderPreserved ==
  \A c \in Calls :
    LET s == sessions[c]
    IN  /\ s.written = InOrder(s.streamed)
        /\ Increasing(s.stdinQueue)
        /\ Increasing(s.played)
        /\ \A i \in 1..Len(s.played) : s.played[i] \in 1..s.emitted

\* C17 witness: several chunks were forwarded, some of them still waiting
\* in front of the pipe, and several PCM chunks reached the sink
C17_Witness ==
  \E c \in Calls :
    LET s == sessions[c]
    IN  /\ Len(s.written) >= 3 /\ Len(s.stdinQueue) >= 2
        /\ Len(s.played) >= 2

\* C18: end-of-input is signalled at most once; a stream that ended normally
\* has signalled it, and every chunk it yielded was written before; once it
\* is signalled no chunk is written and it is not signalled again.
C18_EndOfInputOnce ==
  /\ [](\A c \in Calls :
          LET s == sessions[c]
          IN  /\ s.stdinEndCalls <= 1
              /\ s.stdinEnded <=> s.stdinEndCalls = 1
              /\ s.pc = "finished" =>
                    s.stdinEndCalls = 1 /\ s.written = InOrder(s.streamed))
  /\ [][\A c \in Calls :
          sessions[c].stdinEndCalls > 0 =>
            /\ sessions'[c].written = sessions[c].written
            /\ sessions'[c].stdinEndCalls = sessions[c].stdinEndCalls]_vars

\* C18 witness: a stream of several chunks ended normally while chunks were
\* still waiting in front of the pipe
C18_Witness ==
  \E c \in Calls :
    LET s == sessions[c]
    IN  /\ s.pc = "finished" /\ s.stdinEndCalls = 1
        /\ Len(s.written) >= 2 /\ s.stdinQueue # << >>

\* the throws that leave a session without its decoder or without its sink
\* (lines 78-93)
CreationFailures == {"spawnError", "speakerCtorError"}

\* C19 as stated: every session that started playback has created exactly
\* one decoder process and exactly one sink.
C19_ExactlyOneEach ==
  \A c \in Calls :
    LET s == sessions[c]
    IN  s.pc # "none" => s.decoders = 1 /\ s.sinks = 1

\* C19 amended: a session never creates a second decoder or a second sink,
\* whatever fails or times out, and it has created exactly one of each
\* unless spawn or the Speaker constructor threw.
C19_AtMostOneEach ==
  \A c \in Calls :
    LET s == sessions[c]
    IN  /\ s.decoders <= 1 /\ s.sinks <= s.decoders
        /\ (s.pc # "none" /\ s.thrown \notin CreationFailures) =>
              s.decoders = 1 /\ s.sinks = 1
        /\ s.thrown = "spawnError" => s.decoders = 0
        /\ s.thrown = "speakerCtorError" => s.decoders = 1 /\ s.sinks = 0

\* C19 witness: the provider stream failed and the timer fired on a session
\* that still has its one decoder and its one sink
C19_Witness ==
  \E c \in Calls :
    LET s == sessions[c]
    IN  /\ s.thrown = "streamError" /\ s.timer = "fired"
        /\ s.decoders = 1 /\ s.sinks = 1

\* C20: a tool invocation issues at most one provider request, whatever
\* fails afterwards, and none when its arguments are rejected.
C20_AtMostOneRequest ==
  \A c \in Calls :
    LET s == sessions[c]
    IN  /\ Len(s.providerCalls) <= 1
        /\ s.pc = "none" => s.providerCalls = << >>

\* C20 witness: the one request was rejected by the provider, the decoder
\* exited non-zero and the timer fired; no second request was issued
C20_Witness ==
  \E c \in Calls :
    LET s == sessions[c]
    IN  /\ s.thrown = "providerError" /\ s.timer = "fired"
        /\ s.exitCode = "1" /\ s.closeEmitted
        /\ Len(s.providerCalls) = 1

\* C23: a process started without the API key never connects its transport:
\* it is still loading or has exited with code 1, and no tool call was
\* handled, no provider request issued, no decoder and no sink created.
C23_NoKeyNoService ==
  ~server.apiKey =>
    /\ server.status \in {"loading", "exited"}
    /\ server.status = "exited" => server.exitCode = "1"
    /\ \A c \in Calls :
         LET s == sessions[c]
         IN  /\ s.hpc = "idle" /\ s.responses = << >>
             /\ s.providerCalls = << >>
             /\ s.decoders = 0 /\ s.sinks = 0

\* C23 witness: the process without the key has exited
C23_Witness == ~server.apiKey /\ server.status = "exited"

\* C21: every answer to a call is a tool result, never a JSON-RPC error; a
\* call that did not succeed is answered with isError and a failure reason;
\* the process that answered is still connected.
C21_FailuresAreToolResults ==
  \A c \in Calls :
    LET s == sessions[c]
    IN  s.hpc = "done" =>
          /\ Len(s.responses) = 1
          /\ s.responses[1].channel = "result"
          /\ s.race.state # "fulfilled" =>
                s.responses[1].isError /\ s.responses[1].reason.kind # "none"
          /\ Running

\* the call carried a valid text and its playback was started
ValidText(s) ==
  s.text.type = "string" /\ s.text.len \in 1..MAX_TEXT_LENGTH

\* C22: whenever a call's session has settled as succeeded and the call is
\* answered, the answer is a non-error result naming the voice and the model
\* the provider was invoked with, which are the caller's when supplied.
C22_SuccessNamesVoiceAndModel ==
  \A c \in Calls :
    LET s == sessions[c]
    IN  (s.promise.state = "fulfilled" /\ s.hpc = "done") =>
          /\ s.responses[1].channel = "result" /\ ~s.responses[1].isError
          /\ s.responses[1].voice = s.providerCalls[1].voice
          /\ s.responses[1].model = s.providerCalls[1].model
          /\ s.voiceArg # Undefined => s.responses[1].voice = s.voiceArg
          /\ s.modelArg # Undefined => s.responses[1].model = s.modelArg

\* C25: a call with a valid text, one of the nine documented voices and a
\* valid model starts playback, and its provider request carries that voice.
C25_DocumentedVoicesAccepted ==
  \A c \in Calls :
    LET s == sessions[c]
    IN  (s.hpc # "idle" /\ ValidText(s) /\ s.voiceArg \in DocumentedVoices
           /\ s.model \in VALID_MODELS) =>
          /\ s.pc # "none"
          /\ s.providerCalls # << >> => s.providerCalls[1].voice = s.voiceArg

\* C26: a call that omits voice and model invokes the provider with the
\* documented defaults, and its success message names them.
C26_DocumentedDefaultsUsed ==
  \A c \in Calls :
    LET s == sessions[c]
    IN  (s.voiceArg = Undefined /\ s.modelArg = Undefined) =>
          /\ s.providerCalls # << >> =>
                /\ s.providerCalls[1].voice = DocumentedDefaultVoice
                /\ s.providerCalls[1].model = DocumentedDefaultModel
          /\ (s.responses # << >> /\ s.race.state = "fulfilled") =>
                /\ s.responses[1].voice = DocumentedDefaultVoice
                /\ s.responses[1].model = DocumentedDefaultModel

\* the failures that concern the text of a call
TextFailures == {"textRequired", "textTooLong", "noArguments"}

\* C27: a call is refused for its text exactly when the text is not a
\* string of 1 to MAX_TEXT_LENGTH characters: such a text with a valid voice
\* and model starts playback, any other text is answered with an error
\* about the text before anything is started.
C27_TextLengthWindow ==
  \A c \in Calls :
    LET s == sessions[c]
    IN  s.hpc # "idle" =>
          IF ValidText(s)
          THEN /\ \A i \in 1..Len(s.responses) :
                    s.responses[i].reason.kind \notin TextFailures
               /\ (s.voice \in VALID_VOICES /\ s.model \in VALID_MODELS) =>
                    s.pc # "none"
          ELSE /\ s.hpc = "done" /\ s.pc = "none" /\ s.providerCalls = << >>
               /\ Len(s.responses) = 1
               /\ s.responses[1].reason.kind \in TextFailures

\* C27 witness: a text of exactly MAX_TEXT_LENGTH characters reached the
\* provider
C27_Witness ==
  \E c \in Calls :
    LET s == sessions[c]
    IN  /\ s.text = [type |-> "string", len |-> MAX_TEXT_LENGTH]
        /\ s.providerCalls # << >>
        /\ s.providerCalls[1].input.len = MAX_TEXT_LENGTH

\* C29: a call is answered with success only when the provider stream has
\* ended and end-of-input has been signalled to the decoder.
C29_SuccessAfterStreamEnd ==
  \A c \in Calls :
    LET s == sessions[c]
    IN  (s.responses # << >> /\ s.race.state = "fulfilled") =>
          s.pc = "finished" /\ s.stdinEndCalls = 1

\* the throws of the setup before the provider request (lines 78-105)
SetupFailures == {"spawnError", "speakerCtorError", "noStdout", "noStderr"}

\* C30: a session that has issued its provider request had created its
\* decoder and its sink, piped them and registered their handlers before;
\* a session whose setup threw has issued no request.
C30_RequestAfterSetup ==
  \A c \in Calls :
    LET s == sessions[c]
    IN  /\ s.providerCalls # << >> =>
             s.decoders = 1 /\ s.sinks = 1 /\ s.handlers
        /\ s.thrown \in SetupFailures =>
             s.providerCalls = << >> /\ s.hpc = "done"

\* C30 witness: the decoder and the sink were created and the pipe check
\* threw; the call was answered without a provider request
C30_Witness ==
  \E c \in Calls :
    LET s == sessions[c]
    IN  /\ s.thrown = "noStdout" /\ s.decoders = 1 /\ s.sinks = 1
        /\ s.providerCalls = << >> /\ s.responses # << >>

\* the session holds a running decoder and an open sink and is unsettled
Playing(s) ==
  s.ffmpeg = "running" /\ s.speaker = "open" /\ ~s.settled /\ ~s.killed

\* C24: every step is the step of one call and leaves every other session
\* as it was: its settlement, its decoder, its sink, its timer and its
\* response.
C24_SessionsIndependent ==
  [][\A c, d \in DOMAIN sessions :
       (c # d /\ sessions'[c] # sessions[c]) => sessions'[d] = sessions[d]]_vars

\* C24 witness: the second call created its decoder and its sink while the
\* first was playing; later the first failed and was cleaned up and the
\* second is still playing
C24_Witness ==
  \E c, d \in DOMAIN sessions :
    /\ c # d
    /\ sessions[c].promise.state = "rejected" /\ sessions[c].killed
    /\ sessions[c].timer = "fired"
    /\ Playing(sessions[d]) /\ sessions[d].decoders = 1
    /\ sessions[d].sinks = 1

\* the call was refused before playback: by validation, or for its missing
\* arguments
Refused(s) == s.hpc = "done" /\ s.pc = "none"

\* C28: a refused call has created no decoder, no sink and no timer and
\* issued no request; the step that refuses it touches nothing of any other
\* session.
C28_RefusalChangesNothing ==
  /\ [](\A c \in DOMAIN sessions :
          LET s == sessions[c]
          IN  Refused(s) =>
                /\ s.decoders = 0 /\ s.sinks = 0
                /\ s.ffmpeg = "null" /\ s.speaker = "null"
                /\ s.timer = "none" /\ s.providerCalls = << >>
                /\ s.promise = Pending /\ ~s.settled)
  /\ [][\A c, d \in DOMAIN sessions :
          (c # d /\ ~Refused(sessions[c]) /\ Refused(sessions'[c])) =>
            sessions'[d] = sessions[d]]_vars

\* C28 witness: a call was refused by validation while the other session
\* was playing
C28_Witness ==
  \E c, d \in DOMAIN sessions :
    /\ c # d
    /\ Refused(sessions[c]) /\ sessions[c].responses[1].channel = "result"
    /\ sessions[c].responses[1].reason.kind = "textTooLong"
    /\ Playing(sessions[d])

\* C31: an armed timer stays armed until it fires (nothing cancels it), and
\* when it fires on a call whose race the playback promise has already
\* decided, the response of the call stays as it is: no change, no second
\* response.
C31_LateTimerIsHarmless ==
  [][\A c \in Calls :
       LET s == sessions[c]
           t == sessions'[c]
       IN  /\ s.timer = "armed" => t.timer \in {"armed", "fired"}
           /\ s.timer = "fired" => t.timer = "fired"
           /\ (s.timer = "armed" /\ t.timer = "fired"
                  /\ s.promise.state # "pending") =>
                /\ Len(s.responses) = 1
                /\ t.responses = s.responses
                /\ t.race = s.race /\ t.promise = s.promise]_vars

\* C31 witness: the sink's error failed the session and was reported; the
\* timer fired afterwards and the response is still that failure alone
C31_Witness ==
  \E c \in Calls :
    LET s == sessions[c]
    IN  /\ s.timer = "fired"
        /\ s.promise = Rejected(Err("speakerError"))
        /\ s.responses = <<ToolResult(s, Rejected(Err("speakerError")))>>

\* C32: the stderr buffer is never longer than the cap plus the marker;
\* once the marker is appended no chunk changes the buffer (so it is
\* appended once); a buffer without the marker holds every chunk received.
C32_BufferIsPrefixOrMarked ==
  /\ [](\A c \in Calls :
          LET s == sessions[c]
          IN  /\ s.ffmpegError.len <= MAX_ERROR_BUFFER_SIZE + TruncationMarkerLen
              /\ ~s.ffmpegError.truncated => s.ffmpegError.len = s.stderrTotal)
  /\ [][\A c \in Calls :
          sessions[c].ffmpegError.truncated =>
            sessions'[c].ffmpegError = sessions[c].ffmpegError]_vars

\* the failures settled by an event handler (lines 117-137)
EventFailures == {"ffmpegError", "ffmpegExit", "speakerError"}

\* C33: in a session that a decoder 'error', a decoder 'close' or a sink
\* 'error' has failed, no provider request is issued any more, and once its
\* decoder has exited no chunk is written to the decoder's input.
C33_FailureStopsForwarding ==
  [][\A c \in Calls :
       LET s == sessions[c]
           t == sessions'[c]
       IN  (s.promise.state = "rejected"
              /\ s.promise.reason.kind \in EventFailures) =>
             /\ t.providerCalls = s.providerCalls
             /\ s.ffmpeg = "exited" => t.written = s.written]_vars

\* C34: the catch block fails an unsettled session with the error thrown on
\* the provider path; from then on the session's outcome is that error,
\* whatever the decoder's 'close' and the sink's 'close' bring, and a
\* response that reports it is never replaced.
C34_ThrownReasonIsKept ==
  [][\A c \in Calls :
       LET s == sessions[c]
           t == sessions'[c]
       IN  /\ (~s.settled /\ s.pc # "caught" /\ t.pc = "caught"
                  /\ t.thrown \in ProviderFailures) =>
                /\ t.promise = Rejected(Err(t.thrown))
                /\ s.race.state = "pending" =>
                      t.responses = <<ToolResult(t, Rejected(Err(t.thrown)))>>
           /\ (s.promise.state = "rejected"
                  /\ s.promise.reason.kind \in ProviderFailures) =>
                /\ t.promise = s.promise
                /\ s.responses # << >> => t.responses = s.responses]_vars

\* C34 witness: the stream threw and failed the session; the killed decoder
\* closed with a null status and the ended sink closed; the outcome and the
\* response are still the stream's error
C34_Witness ==
  \E c \in Calls :
    LET s == sessions[c]
    IN  /\ s.promise = Rejected(Err("streamError")) /\ s.killed
        /\ s.closeEmitted /\ s.exitCode = "null" /\ s.speaker = "closed"
        /\ s.responses = <<ToolResult(s, Rejected(Err("streamError")))>>

\* C35: the decoder's 'close' reaching an unsettled session fails it with
\* the exit failure when the status is null or non-zero, and leaves it
\* unsettled when the status is 0.
C35_NullCodeFails ==
  [][\A c \in Calls :
       LET s == sessions[c]
           t == sessions'[c]
       IN  (~s.closeEmitted /\ t.closeEmitted /\ s.handlers /\ ~s.settled) =>
             IF s.exitCode = "0"
             THEN ~t.settled /\ t.promise = Pending
             ELSE /\ s.exitCode \in {"1", "null"}
                  /\ t.settled
                  /\ t.promise = Rejected(ExitErr(s.exitCode, s.ffmpegError))]_vars

\* C35 witness: a decoder ended by a signal closed with a null status and
\* the session failed with it
C35_Witness ==
  \E c \in Calls :
    LET s == sessions[c]
    IN  /\ s.closeEmitted /\ s.exitCode = "null"
        /\ s.promise.state = "rejected"
        /\ s.promise.reason.kind = "ffmpegExit"
        /\ s.promise.reason.code = "null"

====
